---- MODULE Spec2Model ----
(***************************************************************************)
(* Bolt Card emulator (NTAG424 DNA, SDM read-only mode).                   *)
(*                                                                         *)
(* The module models                                                       *)
(*   - the byte utilities, AES-128, AES-CMAC, the SP 800-108 KDF and the   *)
(*     SDM / NDEF builder as operators over sequences of bytes (0..255);   *)
(*   - the APDU codec and the SELECT / READ BINARY handlers as operators;  *)
(*   - NTAG424Service (selected file, 3-byte counter) as a state machine   *)
(*     whose one synchronous step is processAPDU;                          *)
(*   - StorageService's asynchronous incrementCounter as a task of three   *)
(*     storage operations (load, load, save) that interleave freely with   *)
(*     each other and with processAPDU;                                    *)
(*   - HCEService (the session obtained asynchronously, enable, disable)   *)
(*     and the Home and Config screens' handlers that use it and the       *)
(*     stored config;                                                      *)
(*   - single calls of buildNDEFMessage and of verifyCMAC on their own.    *)
(*                                                                         *)
(* A behaviour is the life of one configured card: the reconfiguration     *)
(* entry points (updateKeys, updateLNURL, updateCounter) are not taken.     *)
(*                                                                         *)
(* A thrown exception is the value THROWN (for byte strings) or a record   *)
(* with threw = TRUE; every caller propagates it as the source does.       *)
(***************************************************************************)
EXTENDS Integers, Sequences, FiniteSets, TLC

\* ------------------------------------------------------------------------
\* Bytes
\* ------------------------------------------------------------------------

Byte == 0..255

\* The value standing for "an Error was thrown" where a byte string is expected.
THROWN == << -1 >>

\* JavaScript's `undefined` for an optional number (Lc, Le, a file id not given).
UNDEFINED == -1

\* selectedFileId: null.
NULL == -1

RECURSIVE BitXorN(_, _, _)
BitXorN(a, b, n) ==
    IF n = 0 THEN 0
    ELSE (((a % 2) + (b % 2)) % 2) + 2 * BitXorN(a \div 2, b \div 2, n - 1)

RECURSIVE BitOrN(_, _, _)
BitOrN(a, b, n) ==
    IF n = 0 THEN 0
    ELSE (IF a % 2 = 1 \/ b % 2 = 1 THEN 1 ELSE 0)
         + 2 * BitOrN(a \div 2, b \div 2, n - 1)

\* a ^ b on nibbles, tabulated once.
NibXor == [a \in 0..15 |-> [b \in 0..15 |-> BitXorN(a, b, 4)]]

\* const v = e; F(v): e is evaluated once, before F.
Bind(e, F(_)) == CHOOSE r \in { F(v) : v \in { e } } : TRUE

Bind2(e1, e2, F(_, _)) ==
    CHOOSE r \in { F(v1, v2) : v1 \in { e1 }, v2 \in { e2 } } : TRUE

\* a ^ b on bytes.
XorByte(a, b) ==
    Bind2(a, b, LAMBDA x, y :
        (16 * NibXor[x \div 16][y \div 16]) + NibXor[x % 16][y % 16])

\* a | b on non-negative integers below 2^24.
OrInt(a, b) == BitOrN(a, b, 24)

\* Math.min.
Min(a, b) == IF a < b THEN a ELSE b

\* Uint8Array.prototype.slice(start, end), 0-based, end exclusive and clamped.
slice(s, start, end) ==
    IF start >= Min(end, Len(s)) THEN << >>
    ELSE SubSeq(s, start + 1, Min(end, Len(s)))

\* A byte string given by its elements, as a tuple (evaluated once).
Uint8Array(f) == f \o << >>

\* new Uint8Array(n): n zero bytes.
zeros(n) == Uint8Array([i \in 1..n |-> 0])

\* crypto/utils.ts xor: throws when the lengths differ.
xor(a, b) ==
    Bind2(a, b, LAMBDA x, y :
        IF Len(x) # Len(y) THEN THROWN
        ELSE Uint8Array([i \in 1..Len(x) |-> XorByte(x[i], y[i])]))

\* crypto/aes.ts xorBytes (the CMAC subkey helper).
xorBytes(a, b) ==
    Bind2(a, b, LAMBDA x, y :
        IF Len(x) # Len(y) THEN THROWN
        ELSE Uint8Array([i \in 1..Len(x) |-> XorByte(x[i], y[i])]))

\* crypto/aes.ts leftShiftOne: the byte string shifted left by one bit.
leftShiftOne(data) ==
    Bind(data, LAMBDA d :
        Uint8Array([i \in 1..Len(d) |->
            ((d[i] * 2) % 256)
            + (IF i < Len(d) /\ d[i + 1] >= 128 THEN 1 ELSE 0)]))

\* crypto/utils.ts numberToBytes: big-endian, the low byteLength bytes of num.
numberToBytes(num, byteLength) ==
    Uint8Array([i \in 1..byteLength |-> (num \div (256 ^ (byteLength - i))) % 256])

\* crypto/utils.ts bytesToNumber: big-endian.
RECURSIVE bytesToNumber(_)
bytesToNumber(bytes) ==
    Bind(bytes, LAMBDA b :
        IF Len(b) = 0 THEN 0
        ELSE (256 * bytesToNumber(SubSeq(b, 1, Len(b) - 1))) + b[Len(b)])

\* crypto/utils.ts incrementCounter: add one from the least significant byte,
\* a byte at FF becomes 00 and the carry moves on; all FF wraps to all 00.
RECURSIVE incrementFrom(_, _)
incrementFrom(result, i) ==
    Bind(result, LAMBDA res :
        IF i < 1 THEN res
        ELSE IF res[i] = 255
             THEN incrementFrom([res EXCEPT ![i] = 0], i - 1)
             ELSE [res EXCEPT ![i] = res[i] + 1])

\* Fault variant: an increment that stops at the all-ones counter instead of
\* wrapping to zero.
incrementSaturating(ctr) ==
    IF \A i \in 1..Len(ctr) : ctr[i] = 255 THEN ctr ELSE incrementFrom(ctr, Len(ctr))

incrementCounter(ctr) == Bind(ctr, LAMBDA c : incrementFrom(c, Len(c)))

\* One hexadecimal digit as the ASCII code of its upper-case character.
HexDigit(n) == Bind(n, LAMBDA d : IF d < 10 THEN 48 + d ELSE 55 + d)

\* crypto/utils.ts bytesToHex: two upper-case hex characters per byte.
bytesToHex(bytes) ==
    Bind(bytes, LAMBDA b :
        Uint8Array([i \in 1..(2 * Len(b)) |->
            IF i % 2 = 1 THEN HexDigit(b[(i + 1) \div 2] \div 16)
                         ELSE HexDigit(b[i \div 2] % 16)]))

\* The value of one hexadecimal character (parseInt(.., 16) accepts both cases).
HexValue(ch) ==
    IF ch >= 48 /\ ch <= 57 THEN ch - 48
    ELSE IF ch >= 65 /\ ch <= 70 THEN ch - 55
    ELSE ch - 87

\* hex.replace(/[^0-9A-Fa-f]/g, ''): the characters that are kept.
isHexChar(ch) ==
    \/ (ch >= 48 /\ ch <= 57)
    \/ (ch >= 65 /\ ch <= 70)
    \/ (ch >= 97 /\ ch <= 102)

\* crypto/utils.ts hexToBytes: throws on an odd number of hex characters.
hexToBytes(hex) ==
    LET h == SelectSeq(hex, isHexChar)
    IN  IF Len(h) % 2 # 0 THEN THROWN
        ELSE Uint8Array([i \in 1..(Len(h) \div 2) |->
                 (16 * HexValue(h[(2 * i) - 1])) + HexValue(h[2 * i])])

\* ------------------------------------------------------------------------
\* AES-128 (CryptoJS.AES with a 128-bit key, FIPS-197)
\* ------------------------------------------------------------------------

SBox ==
  <<
       99, 124, 119, 123, 242, 107, 111, 197, 48, 1, 103, 43, 254, 215, 171, 118,
       202, 130, 201, 125, 250, 89, 71, 240, 173, 212, 162, 175, 156, 164, 114, 192,
       183, 253, 147, 38, 54, 63, 247, 204, 52, 165, 229, 241, 113, 216, 49, 21,
       4, 199, 35, 195, 24, 150, 5, 154, 7, 18, 128, 226, 235, 39, 178, 117,
       9, 131, 44, 26, 27, 110, 90, 160, 82, 59, 214, 179, 41, 227, 47, 132,
       83, 209, 0, 237, 32, 252, 177, 91, 106, 203, 190, 57, 74, 76, 88, 207,
       208, 239, 170, 251, 67, 77, 51, 133, 69, 249, 2, 127, 80, 60, 159, 168,
       81, 163, 64, 143, 146, 157, 56, 245, 188, 182, 218, 33, 16, 255, 243, 210,
       205, 12, 19, 236, 95, 151, 68, 23, 196, 167, 126, 61, 100, 93, 25, 115,
       96, 129, 79, 220, 34, 42, 144, 136, 70, 238, 184, 20, 222, 94, 11, 219,
       224, 50, 58, 10, 73, 6, 36, 92, 194, 211, 172, 98, 145, 149, 228, 121,
       231, 200, 55, 109, 141, 213, 78, 169, 108, 86, 244, 234, 101, 122, 174, 8,
       186, 120, 37, 46, 28, 166, 180, 198, 232, 221, 116, 31, 75, 189, 139, 138,
       112, 62, 181, 102, 72, 3, 246, 14, 97, 53, 87, 185, 134, 193, 29, 158,
       225, 248, 152, 17, 105, 217, 142, 148, 155, 30, 135, 233, 206, 85, 40, 223,
       140, 161, 137, 13, 191, 230, 66, 104, 65, 153, 45, 15, 176, 84, 187, 22 >>

SubByte(b) == SBox[b + 1]

\* Multiplication by x in GF(2^8) modulo x^8 + x^4 + x^3 + x + 1.
xtime(b) == Bind(b, LAMBDA x : IF x >= 128 THEN XorByte((x * 2) % 256, 27) ELSE x * 2)

Xor3(a, b, c) == XorByte(XorByte(a, b), c)
Xor4(a, b, c, d) == XorByte(XorByte(a, b), XorByte(c, d))

Rcon == << 1, 2, 4, 8, 16, 32, 64, 128, 27, 54 >>

\* The next round key from the previous one (16 bytes, words in order).
NextRoundKey(k0, r) ==
    Bind(k0, LAMBDA k :
    Bind(<< XorByte(SubByte(k[14]), Rcon[r]), SubByte(k[15]),
            SubByte(k[16]), SubByte(k[13]) >>, LAMBDA t :
    Bind(Uint8Array([i \in 1..4 |-> XorByte(k[i], t[i])]), LAMBDA w0 :
    Bind(Uint8Array([i \in 1..4 |-> XorByte(k[4 + i], w0[i])]), LAMBDA w1 :
    Bind(Uint8Array([i \in 1..4 |-> XorByte(k[8 + i], w1[i])]), LAMBDA w2 :
    Bind(Uint8Array([i \in 1..4 |-> XorByte(k[12 + i], w2[i])]), LAMBDA w3 :
        w0 \o w1 \o w2 \o w3))))))

RECURSIVE ExpandKey(_, _)
\* The round keys ks[1..r] extended to all 11.
ExpandKey(ks0, r) ==
    Bind(ks0, LAMBDA ks :
        IF r > 10 THEN ks
        ELSE ExpandKey(Append(ks, NextRoundKey(ks[r], r)), r + 1))

\* The 11 round keys of a 16-byte key.
KeySchedule(key) == ExpandKey(<< key >>, 1)

\* Byte i of the state is row (i-1) % 4, column (i-1) \div 4.
\* SubBytes then ShiftRows: the byte that lands in row r, column c.
SubShift(s, r, c) == SubByte(s[r + (4 * ((c + r) % 4)) + 1])

\* One full round: SubBytes, ShiftRows, MixColumns, AddRoundKey.
Round(s0, k0) ==
    Bind2(s0, k0, LAMBDA s, k :
        Uint8Array([i \in 1..16 |->
            LET r  == (i - 1) % 4
                c  == (i - 1) \div 4
                a0 == SubShift(s, (r + 0) % 4, c)
                a1 == SubShift(s, (r + 1) % 4, c)
                a2 == SubShift(s, (r + 2) % 4, c)
                a3 == SubShift(s, (r + 3) % 4, c)
            IN  XorByte(Xor4(xtime(a0), XorByte(xtime(a1), a1), a2, a3), k[i])]))

\* The last round has no MixColumns.
FinalRound(s0, k0) ==
    Bind2(s0, k0, LAMBDA s, k :
        Uint8Array([i \in 1..16 |->
            XorByte(SubShift(s, (i - 1) % 4, (i - 1) \div 4), k[i])]))

AddRoundKey(s0, k0) ==
    Bind2(s0, k0, LAMBDA s, k : Uint8Array([i \in 1..16 |-> XorByte(s[i], k[i])]))

RECURSIVE Rounds(_, _, _)
\* Rounds r..10 applied to the state s0.
Rounds(s0, ks0, r) ==
    Bind2(s0, ks0, LAMBDA s, ks :
        IF r = 10 THEN FinalRound(s, ks[11])
        ELSE Rounds(Round(s, ks[r + 1]), ks, r + 1))

\* One block under an expanded key.
Cipher(ks0, block0) ==
    Bind2(ks0, block0, LAMBDA ks, block : Rounds(AddRoundKey(block, ks[1]), ks, 1))

\* crypto/aes.ts aesEncryptECB: key of 16 bytes, data a multiple of 16 bytes,
\* no padding; each block is enciphered on its own.
aesEncryptECB(key0, data0) ==
    Bind2(key0, data0, LAMBDA key, data :
        IF Len(key) # 16 THEN THROWN
        ELSE IF Len(data) % 16 # 0 THEN THROWN
        ELSE Bind(KeySchedule(key), LAMBDA ks :
             Bind(Uint8Array([b \in 1..(Len(data) \div 16) |->
                      Cipher(ks, SubSeq(data, (16 * (b - 1)) + 1, 16 * b))]), LAMBDA blocks :
                 Uint8Array([i \in 1..Len(data) |->
                     blocks[((i - 1) \div 16) + 1][((i - 1) % 16) + 1]]))))

\* crypto/aes.ts aesEncryptBlock.
aesEncryptBlock(key, block0) ==
    Bind(block0, LAMBDA block :
        IF Len(block) # 16 THEN THROWN ELSE aesEncryptECB(key, block))

\* A big-endian word plus one, modulo 2^(8 * Len(w)).
RECURSIVE WordPlusOne(_, _)
WordPlusOne(w0, i) ==
    Bind(w0, LAMBDA w :
        IF i < 1 THEN w
        ELSE IF w[i] = 255 THEN WordPlusOne([w EXCEPT ![i] = 0], i - 1)
        ELSE [w EXCEPT ![i] = w[i] + 1])

\* CryptoJS.mode.CTR: block n of the keystream enciphers the IV with n added
\* to its last 32-bit word.
RECURSIVE CtrBlock(_, _)
CtrBlock(iv, n) ==
    IF n = 0 THEN iv
    ELSE Bind(CtrBlock(iv, n - 1), LAMBDA prev :
             SubSeq(prev, 1, 12) \o WordPlusOne(SubSeq(prev, 13, 16), 4))

\* crypto/aes.ts aesEncryptCTR: data XOR keystream, cut to the data's length.
aesEncryptCTR(key0, iv0, data0) ==
    Bind2(key0, iv0, LAMBDA key, iv :
    Bind(data0, LAMBDA data :
        IF Len(key) # 16 THEN THROWN
        ELSE IF Len(iv) # 16 THEN THROWN
        ELSE Bind(KeySchedule(key), LAMBDA ks :
             Bind(Uint8Array([b \in 1..((Len(data) + 15) \div 16) |->
                      Cipher(ks, CtrBlock(iv, b - 1))]), LAMBDA stream :
                 Uint8Array([i \in 1..Len(data) |->
                     XorByte(data[i],
                             stream[((i - 1) \div 16) + 1][((i - 1) % 16) + 1])])))))

\* crypto/aes.ts aesDecryptCTR: the same operation.
aesDecryptCTR(key, iv, data) == aesEncryptCTR(key, iv, data)

\* ------------------------------------------------------------------------
\* AES-CMAC (NIST SP 800-38B) and the SP 800-108 KDF
\* ------------------------------------------------------------------------

Rb == Uint8Array([i \in 1..16 |-> IF i = 16 THEN 135 ELSE 0])

\* crypto/aes.ts generateCMACSubkeys.
generateCMACSubkeys(key) ==
    Bind(aesEncryptBlock(key, zeros(16)), LAMBDA L :
    Bind(leftShiftOne(L), LAMBDA K1a :
    Bind(IF L[1] >= 128 THEN xorBytes(K1a, Rb) ELSE K1a, LAMBDA K1 :
    Bind(leftShiftOne(K1), LAMBDA K2a :
    Bind(IF K1[1] >= 128 THEN xorBytes(K2a, Rb) ELSE K2a, LAMBDA K2 :
        [K1 |-> K1, K2 |-> K2])))))

RECURSIVE CbcMac(_, _, _, _)
\* The CBC chain over the first n blocks of message, starting from mac.
CbcMac(key, message, mac, n) ==
    IF n = 0 THEN mac
    ELSE Bind(CbcMac(key, message, mac, n - 1), LAMBDA prev :
             aesEncryptBlock(key, xor(prev, slice(message, (n - 1) * 16, n * 16))))

\* crypto/cmac.ts cmac: the 16-byte tag.
cmac(key0, message0) ==
    Bind2(key0, message0, LAMBDA key, message :
        IF Len(key) # 16 THEN THROWN
        ELSE LET numBlocks == IF Len(message) = 0 THEN 1 ELSE (Len(message) + 15) \div 16
                 lastBlockComplete == Len(message) # 0 /\ Len(message) % 16 = 0
             IN  Bind2(generateCMACSubkeys(key),
                       slice(message, (numBlocks - 1) * 16, Len(message)),
                       LAMBDA sub, lastBlockData :
                 Bind2(IF lastBlockComplete THEN xor(lastBlockData, sub.K1)
                       ELSE xor(Uint8Array([i \in 1..16 |->
                                    IF i <= Len(lastBlockData) THEN lastBlockData[i]
                                    ELSE IF i = Len(lastBlockData) + 1 THEN 128 ELSE 0]),
                                sub.K2),
                       CbcMac(key, message, zeros(16), numBlocks - 1),
                       LAMBDA lastBlock, mac :
                     aesEncryptBlock(key, xor(mac, lastBlock)))))

\* crypto/cmac.ts cmacSDM: the leftmost 8 bytes of the tag.
cmacSDM(key, message) ==
    Bind(cmac(key, message), LAMBDA fullCmac :
        IF fullCmac = THROWN THEN THROWN ELSE slice(fullCmac, 0, 8))

\* crypto/cmac.ts cmacPRF.
cmacPRF(key, data) == cmac(key, data)

RECURSIVE diffOver(_, _, _)
\* The loop of verifyCMAC over the first n bytes: diff |= calculatedTag[i] ^ tag[i].
diffOver(calculatedTag, tag, n) ==
    IF n = 0 THEN 0
    ELSE OrInt(diffOver(calculatedTag, tag, n - 1),
               XorByte(calculatedTag[n], tag[n]))

\* Fault variant: only the leftmost 8 bytes of the two tags are compared.
verifyCMACLeftmost8(key, message, tag) ==
    Bind(cmac(key, message), LAMBDA calculatedTag :
        IF calculatedTag = THROWN THEN [threw |-> TRUE, valid |-> FALSE]
        ELSE IF Len(calculatedTag) # Len(tag) THEN [threw |-> FALSE, valid |-> FALSE]
        ELSE [threw |-> FALSE, valid |-> diffOver(calculatedTag, tag, 8) = 0])

\* crypto/cmac.ts verifyCMAC: the tags are compared byte by byte when they
\* have the same length.
verifyCMAC(key, message, tag) ==
    Bind(cmac(key, message), LAMBDA calculatedTag :
        IF calculatedTag = THROWN THEN [threw |-> TRUE, valid |-> FALSE]
        ELSE IF Len(calculatedTag) # Len(tag) THEN [threw |-> FALSE, valid |-> FALSE]
        ELSE [threw |-> FALSE,
              valid |-> diffOver(calculatedTag, tag, Len(calculatedTag)) = 0])

\* crypto/utils.ts concat of two, three, ... arrays is \o.

\* crypto/sessionKeys.ts deriveKey:
\* CMAC(masterKey, 00 01 || label || 00 || sv || 00 80).
deriveKey(masterKey0, sv0, label) ==
    Bind2(masterKey0, sv0, LAMBDA masterKey, sv :
        IF Len(masterKey) # 16 THEN THROWN
        ELSE IF Len(sv) # 16 THEN THROWN
        ELSE cmacPRF(masterKey, << 0, 1 >> \o label \o << 0 >> \o sv \o << 0, 128 >>))

\* "SDMENCFileData" and "SDMFileReadMAC" (ASCII).
labelFileEnc == << 83, 68, 77, 69, 78, 67, 70, 105, 108, 101, 68, 97, 116, 97 >>
labelFileReadMAC == << 83, 68, 77, 70, 105, 108, 101, 82, 101, 97, 100, 77, 65, 67 >>

\* crypto/sessionKeys.ts deriveSDMSessionKeys with the default (all-zero) SV.
deriveSDMSessionKeys(K1, K2) ==
    Bind(deriveKey(K1, zeros(16), labelFileEnc), LAMBDA enc :
    Bind(IF enc = THROWN THEN THROWN ELSE deriveKey(K2, zeros(16), labelFileReadMAC),
         LAMBDA mac :
        [threw |-> (enc = THROWN \/ mac = THROWN),
         KSesSDMFileEnc |-> enc,
         KSesSDMFileReadMAC |-> mac]))

\* ------------------------------------------------------------------------
\* SDM builder (services/SDMService.ts); a string is the tuple of its
\* character codes
\* ------------------------------------------------------------------------

PICC_DATA_SIZE == 10

\* TextEncoder.encode: UTF-8 (one byte below U+0080, two bytes below U+0800),
\* the string encoded half by half.
RECURSIVE TextEncode(_)
TextEncode(str0) ==
    Bind(str0, LAMBDA str :
        IF Len(str) = 0 THEN << >>
        ELSE IF Len(str) = 1
        THEN (IF str[1] < 128 THEN << str[1] >>
              ELSE << 192 + (str[1] \div 64), 128 + (str[1] % 64) >>)
        ELSE TextEncode(SubSeq(str, 1, Len(str) \div 2))
             \o TextEncode(SubSeq(str, (Len(str) \div 2) + 1, Len(str))))

\* String.prototype.startsWith.
startsWith(str0, prefix0) ==
    Bind2(str0, prefix0, LAMBDA str, prefix :
        Len(str) >= Len(prefix) /\ SubSeq(str, 1, Len(prefix)) = prefix)

\* str.replace(/^prefix/, by).
replacePrefix(str0, prefix0, by) ==
    Bind2(str0, prefix0, LAMBDA str, prefix :
        IF startsWith(str, prefix) THEN by \o SubSeq(str, Len(prefix) + 1, Len(str))
        ELSE str)

\* Fault variant: the MAC is computed over the encrypted PICCData instead of
\* the plaintext.
generateSDMMacOverCiphertext(uid, ctr, encKey, macKey) ==
    Bind(uid \o ctr, LAMBDA piccData :
        IF Len(piccData) # PICC_DATA_SIZE
        THEN [threw |-> TRUE, encPiccData |-> << >>, cmac |-> << >>, piccData |-> piccData]
        ELSE Bind(deriveSDMSessionKeys(encKey, macKey), LAMBDA sessionKeys :
             IF sessionKeys.threw
             THEN [threw |-> TRUE, encPiccData |-> << >>, cmac |-> << >>,
                   piccData |-> piccData]
             ELSE Bind(aesEncryptCTR(sessionKeys.KSesSDMFileEnc, zeros(16), piccData),
                       LAMBDA encryptedPiccData :
                  Bind(IF encryptedPiccData = THROWN THEN THROWN
                       ELSE cmacSDM(sessionKeys.KSesSDMFileReadMAC, encryptedPiccData),
                       LAMBDA mac :
                      IF encryptedPiccData = THROWN \/ mac = THROWN
                      THEN [threw |-> TRUE, encPiccData |-> << >>, cmac |-> << >>,
                            piccData |-> piccData]
                      ELSE [threw |-> FALSE,
                            encPiccData |-> bytesToHex(encryptedPiccData),
                            cmac |-> bytesToHex(mac),
                            piccData |-> piccData]))))

\* SDMService.ts generateSDM: encPiccData and cmac as upper-case hex strings.
generateSDM(uid, ctr, encKey, macKey) ==
    Bind(uid \o ctr, LAMBDA piccData :
        IF Len(piccData) # PICC_DATA_SIZE
        THEN [threw |-> TRUE, encPiccData |-> << >>, cmac |-> << >>, piccData |-> piccData]
        ELSE Bind(deriveSDMSessionKeys(encKey, macKey), LAMBDA sessionKeys :
             IF sessionKeys.threw
             THEN [threw |-> TRUE, encPiccData |-> << >>, cmac |-> << >>,
                   piccData |-> piccData]
             ELSE Bind2(aesEncryptCTR(sessionKeys.KSesSDMFileEnc, zeros(16), piccData),
                        cmacSDM(sessionKeys.KSesSDMFileReadMAC, piccData),
                        LAMBDA encryptedPiccData, mac :
                      IF encryptedPiccData = THROWN \/ mac = THROWN
                      THEN [threw |-> TRUE, encPiccData |-> << >>, cmac |-> << >>,
                            piccData |-> piccData]
                      ELSE [threw |-> FALSE,
                            encPiccData |-> bytesToHex(encryptedPiccData),
                            cmac |-> bytesToHex(mac),
                            piccData |-> piccData])))

\* "/", "?p=", "&c=", "lnurlw://", "https://".
StrSlash == << 47 >>
StrP == << 63, 112, 61 >>
StrC == << 38, 99, 61 >>
StrLnurlw == << 108, 110, 117, 114, 108, 119, 58, 47, 47 >>
StrHttps == << 104, 116, 116, 112, 115, 58, 47, 47 >>

\* SDMService.ts buildLNURL: {base}/{cardId}?p={encPiccData}&c={cmac}, one
\* trailing "/" of the base dropped.
buildLNURL(baseUrl0, cid, sdmMessage0) ==
    Bind2(baseUrl0, sdmMessage0, LAMBDA baseUrl, sdmMessage :
        (IF Len(baseUrl) > 0 /\ baseUrl[Len(baseUrl)] = StrSlash[1]
         THEN SubSeq(baseUrl, 1, Len(baseUrl) - 1) ELSE baseUrl)
        \o StrSlash \o cid \o StrP \o sdmMessage.encPiccData
        \o StrC \o sdmMessage.cmac)

\* NDEF constants (constants/ntag424.ts).
RTD_URI == 85
URI_PREFIX_HTTPS == 4
TLV_NDEF_MESSAGE == 3
TLV_TERMINATOR == 254
NDEF_FLAGS == 209

\* SDMService.ts buildNDEFMessage: 03 len D1 01 plen 55 04 <uri without
\* https://> FE; each length is stored in one byte (Uint8Array keeps the low 8 bits).
buildNDEFMessage(lnurlUrl) ==
    Bind(replacePrefix(lnurlUrl, StrLnurlw, StrHttps), LAMBDA uri :
    Bind(<< URI_PREFIX_HTTPS >> \o TextEncode(replacePrefix(uri, StrHttps, << >>)),
         LAMBDA fullPayload :
    Bind(<< NDEF_FLAGS, 1, Len(fullPayload) % 256, RTD_URI >> \o fullPayload,
         LAMBDA ndefRecord :
        << TLV_NDEF_MESSAGE, Len(ndefRecord) % 256 >> \o ndefRecord
            \o << TLV_TERMINATOR >>)))

\* SDMService.ts generateNDEFWithSDM.
generateNDEFWithSDM(uid, ctr, encKey, macKey, base, cid) ==
    Bind(generateSDM(uid, ctr, encKey, macKey), LAMBDA sdmMessage :
        IF sdmMessage.threw THEN THROWN
        ELSE buildNDEFMessage(buildLNURL(base, cid, sdmMessage)))

\* ------------------------------------------------------------------------
\* APDU codec (apdu/APDUParser.ts, apdu/APDUBuilder.ts, apdu/commands.ts)
\* ------------------------------------------------------------------------

\* An absent optional byte string (command.data, response.data).
NO_DATA == << -2 >>

\* Instructions, SELECT modes and status words (constants/apdu.ts).
INS_SELECT == 164
INS_READ_BINARY == 176
P1_BY_FILE_ID == 0
P1_BY_DF_NAME == 4
SW_SUCCESS == 36864
SW_SECURITY_STATUS_NOT_SATISFIED == 27010
SW_FILE_NOT_FOUND == 27266
SW_WRONG_PARAMETERS == 27270
SW_INSTRUCTION_NOT_SUPPORTED == 27904
SW_UNKNOWN_ERROR == 28416

\* Files and the application identifier (constants/ntag424.ts).
FILE_CC == 1
FILE_NDEF == 2
FILE_PROPRIETARY == 3
NTAG424_AID == << 210, 118, 0, 0, 133, 1, 1 >>

\* Fault variant: a parser that does not compare Lc with the bytes present.
parseAPDULenient(bytes) ==
    LET n  == Len(bytes)
        Lc == bytes[5]
        base == [threw |-> FALSE, CLA |-> bytes[1], INS |-> bytes[2],
                 P1 |-> bytes[3], P2 |-> bytes[4],
                 Lc |-> UNDEFINED, data |-> NO_DATA, Le |-> UNDEFINED]
    IN  IF n < 4
        THEN [threw |-> TRUE, CLA |-> 0, INS |-> 0, P1 |-> 0, P2 |-> 0,
              Lc |-> UNDEFINED, data |-> NO_DATA, Le |-> UNDEFINED]
        ELSE IF n = 4 THEN base
        ELSE IF n = 5 THEN [base EXCEPT !.Le = bytes[5]]
        ELSE [base EXCEPT
                !.Lc = Lc,
                !.data = IF Lc > 0 THEN slice(bytes, 5, 5 + Lc) ELSE NO_DATA,
                !.Le = IF n > 5 + Lc THEN bytes[5 + Lc + 1] ELSE UNDEFINED]

\* APDUParser.ts parseAPDU: CLA INS P1 P2 [Le] | CLA INS P1 P2 Lc data [Le].
parseAPDU(bytes) ==
    LET n  == Len(bytes)
        Lc == bytes[5]
        base == [threw |-> FALSE, CLA |-> bytes[1], INS |-> bytes[2],
                 P1 |-> bytes[3], P2 |-> bytes[4],
                 Lc |-> UNDEFINED, data |-> NO_DATA, Le |-> UNDEFINED]
    IN  IF n < 4
        THEN [threw |-> TRUE, CLA |-> 0, INS |-> 0, P1 |-> 0, P2 |-> 0,
              Lc |-> UNDEFINED, data |-> NO_DATA, Le |-> UNDEFINED]
        ELSE IF n = 4 THEN base
        ELSE IF n = 5 THEN [base EXCEPT !.Le = bytes[5]]
        ELSE IF n < 5 + Lc THEN [base EXCEPT !.threw = TRUE]
        ELSE [base EXCEPT
                !.Lc = Lc,
                !.data = IF Lc > 0 THEN slice(bytes, 5, 5 + Lc) ELSE NO_DATA,
                !.Le = IF n > 5 + Lc THEN bytes[5 + Lc + 1] ELSE UNDEFINED]

\* APDUBuilder.ts buildSuccessResponse / buildErrorResponse.
buildSuccessResponse(data) ==
    [data |-> data, SW1 |-> (SW_SUCCESS \div 256) % 256, SW2 |-> SW_SUCCESS % 256]

buildErrorResponse(statusWord) ==
    [data |-> NO_DATA, SW1 |-> (statusWord \div 256) % 256, SW2 |-> statusWord % 256]

\* Fault variant: the status word is left out when there is data.
serializeResponseDataOnly(response) ==
    IF response.data # NO_DATA /\ Len(response.data) > 0
    THEN response.data
    ELSE << response.SW1, response.SW2 >>

\* APDUBuilder.ts serializeResponse: data || SW1 || SW2.
serializeResponse(response) ==
    IF response.data # NO_DATA /\ Len(response.data) > 0
    THEN response.data \o << response.SW1, response.SW2 >>
    ELSE << response.SW1, response.SW2 >>

\* Fault variant: every instruction other than READ BINARY is taken for a SELECT.
isSelectCommandUnlessRead(command) == command.INS # INS_READ_BINARY

\* commands.ts predicates: only INS is looked at.
isSelectCommand(command) == command.INS = INS_SELECT
isSelectByAID(command) == isSelectCommand(command) /\ command.P1 = P1_BY_DF_NAME
isSelectByFileID(command) == isSelectCommand(command) /\ command.P1 = P1_BY_FILE_ID
isReadBinaryCommand(command) == command.INS = INS_READ_BINARY

\* commands.ts getReadOffset: (P1 << 8) | P2.
getReadOffset(command) == (command.P1 * 256) + command.P2

\* Fault variant: Le = 00 is taken for a length of zero.
getReadLengthLeAsIs(command) ==
    IF command.Le = UNDEFINED THEN 0 ELSE command.Le

\* commands.ts getReadLength: Le = 0 means 256, an absent Le means 0.
getReadLength(command) ==
    IF command.Le = 0 THEN 256
    ELSE IF command.Le = UNDEFINED THEN 0 ELSE command.Le

\* commands.ts getSelectAID: the data of a SELECT by DF name, or null (NO_DATA).
getSelectAID(command) ==
    IF ~isSelectByAID(command) THEN NO_DATA ELSE command.data

\* Fault variant: a two-byte file id read low byte first.
getSelectFileIDLittleEndian(command) ==
    IF ~isSelectByFileID(command) THEN UNDEFINED
    ELSE IF command.data = NO_DATA \/ Len(command.data) = 0 THEN UNDEFINED
    ELSE IF Len(command.data) = 1 THEN command.data[1]
    ELSE (command.data[2] * 256) + command.data[1]

\* commands.ts getSelectFileID: one byte, or the first two bytes big-endian;
\* null (UNDEFINED) when the command is no SELECT by file id or has no data.
getSelectFileID(command) ==
    IF ~isSelectByFileID(command) THEN UNDEFINED
    ELSE IF command.data = NO_DATA \/ Len(command.data) = 0 THEN UNDEFINED
    ELSE IF Len(command.data) = 1 THEN command.data[1]
    ELSE (command.data[1] * 256) + command.data[2]

\* commands.ts bytesEqual.
bytesEqual(a, b) == Len(a) = Len(b) /\ \A i \in 1..Len(a) : a[i] = b[i]

\* Fault variant: a SELECT by DF-name that accepts any name.
handleSelectAnyAID(aid) == buildSuccessResponse(NO_DATA)

\* ------------------------------------------------------------------------
\* SELECT handler (apdu/handlers/SelectHandler.ts)
\* ------------------------------------------------------------------------

handleSelectByAID(aid) ==
    IF bytesEqual(aid, NTAG424_AID) THEN buildSuccessResponse(NO_DATA)
    ELSE buildErrorResponse(SW_FILE_NOT_FOUND)

validFileIds == { FILE_CC, FILE_NDEF, FILE_PROPRIETARY }

handleSelectByFileID(fileId) ==
    IF fileId \notin validFileIds THEN buildErrorResponse(SW_FILE_NOT_FOUND)
    ELSE buildSuccessResponse(NO_DATA)

\* handleSelect: the response, and in `selected` the file id handed to the
\* onFileSelected callback (UNDEFINED when the callback is not called).
handleSelect(command) ==
    LET aid == getSelectAID(command)
        fileId == getSelectFileID(command)
        response == handleSelectByFileID(fileId)
    IN  IF aid # NO_DATA
        THEN [response |-> handleSelectByAID(aid), selected |-> UNDEFINED]
        ELSE IF fileId # UNDEFINED
        THEN [response |-> response,
              selected |-> IF response.SW1 = 144 /\ response.SW2 = 0
                           THEN fileId ELSE UNDEFINED]
        ELSE [response |-> buildErrorResponse(SW_WRONG_PARAMETERS),
              selected |-> UNDEFINED]

\* ------------------------------------------------------------------------
\* READ BINARY handler (apdu/handlers/ReadHandler.ts)
\* ------------------------------------------------------------------------

\* Fault variant: a capability container with mapping version 2.0.
handleReadCCVersion20(offset, length) ==
    IF offset >= 6 THEN buildSuccessResponse(<< >>)
    ELSE buildSuccessResponse(slice(<< 225, 32, 0, 64, 0, 0 >>, offset, Min(offset + length, 6)))

\* The capability container of handleReadCC.
CC_FILE == << 225, 64, 0, 64, 0, 0 >>

handleReadCC(offset, length) ==
    LET endOffset == Min(offset + length, Len(CC_FILE))
    IN  IF offset >= Len(CC_FILE) THEN buildSuccessResponse(<< >>)
        ELSE buildSuccessResponse(slice(CC_FILE, offset, endOffset))

\* handleReadNDEF with the value getNDEFData() returned.
handleReadNDEF(offset, length, ndefData) ==
    LET endOffset == Min(offset + length, Len(ndefData))
    IN  IF offset >= Len(ndefData) THEN buildSuccessResponse(<< >>)
        ELSE buildSuccessResponse(slice(ndefData, offset, endOffset))

\* Fault variant: the selection test compares with file id 0 instead of null.
noFileSelectedIfZero(sel) == sel = 0

\* ReadHandler.ts line 22: no file is selected.
noFileSelected(sel) == sel = NULL

\* Fault variant: every READ BINARY of the NDEF file increments.
triggersIncrementAlways(offset) == offset >= 0

\* Fault variant: the offset test inverted.
triggersIncrementOffNonZero(offset) == offset # 0

\* ReadHandler.ts line 39: this read calls onCounterIncrement.
triggersIncrement(offset) == offset = 0

\* ------------------------------------------------------------------------
\* Bounds and inputs of the model
\* ------------------------------------------------------------------------

\* Counter increments (NDEF reads at offset 0) in one behaviour of Spec.
MaxReads == 3

\* Counter increments in one behaviour of SpecStorage.
MaxTasks == 2

\* AsyncStorage operations that fail in one behaviour.
MaxFaults == 1

\* Presses of "Save" on the Config screen in one behaviour of SpecConfig.
MaxSaves == 1

\* Enables and taps recorded in one behaviour of SpecApp.
MaxLog == 3

\* The keys of the end-to-end scenarios: K0 = K1 = K2 = 0^16, UID 04AABBCCDDEEFF.
GoodKeys ==
    [K0 |-> zeros(16), K1 |-> zeros(16), K2 |-> zeros(16),
     UID |-> << 4, 170, 187, 204, 221, 238, 255 >>]

\* Misconfigured cards: a 15-byte K1, a 6-byte UID.
ShortK1Keys == [GoodKeys EXCEPT !.K1 = zeros(15)]
ShortUIDKeys == [GoodKeys EXCEPT !.UID = << 4, 170, 187, 204, 221, 238 >>]

KeySets == { GoodKeys, ShortK1Keys, ShortUIDKeys }

\* "https://ln.io/s" and "c1".
LnurlBaseIn == << 104, 116, 116, 112, 115, 58, 47, 47, 108, 110, 46, 105, 111, 47, 115 >>
CardIdIn == << 99, 49 >>

\* Counter values a card starts with: 000000 and FFFFFE (so that FFFFFF and
\* the wrap to 000000 are reached).
InitCounters == { 0, 16777214 }

\* ------------------------------------------------------------------------
\* NTAG424Service (services/NTAG424Service.ts)
\* ------------------------------------------------------------------------

\* Counters within reach of the initial ones.
TableBound == IF MaxReads > MaxTasks THEN MaxReads + 1 ELSE MaxTasks + 1

TableCounters ==
    { numberToBytes((c0 + i) % 16777216, 3) : c0 \in InitCounters, i \in 0..TableBound }

\* generateNDEFWithSDM on the cards of the model and the counters within reach,
\* evaluated once.
NdefTable ==
    [ks \in KeySets, ctr \in TableCounters, base \in { LnurlBaseIn }, cid \in { CardIdIn } |->
        generateNDEFWithSDM(ks.UID, ctr, ks.K1, ks.K2, base, cid)] @@ << >>

\* NTAG424Service.generateNDEFData: generateNDEFWithSDM(keys.UID, state.counter,
\* keys.K1, keys.K2, lnurlBase, cardId).
generateNDEFData(ks, ctr, base, cid) ==
    IF << ks, ctr, base, cid >> \in DOMAIN NdefTable
    THEN NdefTable[ks, ctr, base, cid]
    ELSE generateNDEFWithSDM(ks.UID, ctr, ks.K1, ks.K2, base, cid)

\* The URL HomeScreen.handleToggle builds: generateSDM on the UID and the
\* counter, then buildLNURL; THROWN when generateSDM throws.
toggleLNURL(ks, ctr, base, cid) ==
    Bind(generateSDM(ks.UID, ctr, ks.K1, ks.K2), LAMBDA sdmMessage :
        IF sdmMessage.threw THEN THROWN
        ELSE buildLNURL(base, cid, sdmMessage))

\* toggleLNURL on the cards of the model and the counters within reach,
\* evaluated once.
LnurlTable ==
    [ks \in KeySets, ctr \in TableCounters, base \in { LnurlBaseIn }, cid \in { CardIdIn } |->
        toggleLNURL(ks, ctr, base, cid)] @@ << >>

\* The URL of handleToggle for the stored config.
toggleURL(ks, ctr, base, cid) ==
    IF << ks, ctr, base, cid >> \in DOMAIN LnurlTable
    THEN LnurlTable[ks, ctr, base, cid]
    ELSE toggleLNURL(ks, ctr, base, cid)

\* Characters appended to a URL to make it long.
MaxFill == 260

\* "http://", "HTTPS://", "ln.io/s/c1?p=".
StrHttp == << 104, 116, 116, 112, 58, 47, 47 >>
StrHttpsUpper == << 72, 84, 84, 80, 83, 58, 47, 47 >>
StrPath == << 108, 110, 46, 105, 111, 47, 115, 47, 99, 49, 63, 112, 61 >>

\* n times "a".
Filler(n) == [i \in 1..n |-> 97]

\* The URLs buildNDEFMessage is called with: https URLs of every length up to
\* MaxFill characters after the path, and URLs of the other schemes (lnurlw,
\* http, HTTPS in capitals, no scheme at all).
NdefUrls ==
    { StrHttps \o StrPath \o Filler(n) : n \in 0..MaxFill }
    \cup { scheme \o StrPath \o Filler(n) :
             scheme \in { StrLnurlw, StrHttp, StrHttpsUpper, << >> }, n \in { 0, 5 } }

NdefCalls ==
    { [fn |-> "buildNDEFMessage", url |-> u, done |-> FALSE, result |-> << >>] :
        u \in NdefUrls }

\* The keys and the messages verifyCMAC is called with: the zero key and the
\* key of the SP 800-38B examples; the empty message, a PICCData, one full
\* block and one block and a byte.
CmacKeys ==
    { zeros(16),
      << 43, 126, 21, 22, 40, 174, 210, 166, 171, 247, 21, 136, 9, 207, 79,
      60 >> }

CmacMessages ==
    { << >>,
      << 4, 170, 187, 204, 221, 238, 255, 0, 0, 1 >>,
      << 107, 193, 190, 226, 46, 64, 159, 150, 233, 61, 126, 17, 115, 147,
      23, 42 >>,
      << 107, 193, 190, 226, 46, 64, 159, 150, 233, 61, 126, 17, 115, 147,
      23, 42, 174 >> }

\* cmac on these keys and messages, evaluated once.
CmacTable == [k \in CmacKeys, m \in CmacMessages |-> cmac(k, m)] @@ << >>

\* The tag t with its bit b (1..128, from the left) flipped.
flipBit(t, b) ==
    [t EXCEPT ![((b - 1) \div 8) + 1] =
        XorByte(@, 2 ^ (7 - ((b - 1) % 8)))]

\* The tags verifyCMAC is given: the tag of the message, the tag with one bit
\* flipped, cut to its leftmost 8 bytes, with one byte more, empty.
TagVariants ==
    { [kind |-> "exact", bit |-> 0], [kind |-> "short", bit |-> 0],
      [kind |-> "long", bit |-> 0], [kind |-> "empty", bit |-> 0] }
    \cup { [kind |-> "flip", bit |-> b] : b \in 1..128 }

tagVariant(t, v) ==
    IF v.kind = "exact" THEN t
    ELSE IF v.kind = "flip" THEN flipBit(t, v.bit)
    ELSE IF v.kind = "short" THEN SubSeq(t, 1, 8)
    ELSE IF v.kind = "long" THEN t \o << 0 >>
    ELSE << >>

CmacCalls ==
    { [fn |-> "verifyCMAC", key |-> k, message |-> m, variant |-> v,
       tag |-> tagVariant(CmacTable[k, m], v), done |-> FALSE, valid |-> FALSE] :
        k \in CmacKeys, m \in CmacMessages, v \in TagVariants }

\* Fault variant: the increment leaves state.counter as it is.
handleCounterIncrementSkipped(ctr) == ctr

\* NTAG424Service.handleCounterIncrement: the new state.counter (the call of
\* incrementStorageCounter() it makes is the task the action APDU starts).
handleCounterIncrement(ctr) == incrementCounter(ctr)

\* ReadHandler.ts handleReadBinary with NTAG424Service.handleReadCommand's
\* callbacks: getNDEFData = generateNDEFData, onCounterIncrement =
\* handleCounterIncrement.  The result carries the response, whether an Error
\* was thrown, state.counter afterwards and the number of increments made.
handleReadBinary(command, sel, ctr, ks, base, cid) ==
    IF noFileSelected(sel)
    THEN [threw |-> FALSE, counter |-> ctr, increments |-> 0,
          response |-> buildErrorResponse(SW_SECURITY_STATUS_NOT_SATISFIED)]
    ELSE IF sel = FILE_CC
    THEN [threw |-> FALSE, counter |-> ctr, increments |-> 0,
          response |-> handleReadCC(getReadOffset(command), getReadLength(command))]
    ELSE IF sel = FILE_NDEF
    THEN Bind2(IF triggersIncrement(getReadOffset(command)) THEN 1 ELSE 0,
               IF triggersIncrement(getReadOffset(command))
               THEN handleCounterIncrement(ctr) ELSE ctr,
               LAMBDA inc, ctr2 :
         Bind(generateNDEFData(ks, ctr2, base, cid), LAMBDA ndefData :
             IF ndefData = THROWN
             THEN [threw |-> TRUE, counter |-> ctr2, increments |-> inc,
                   response |-> buildErrorResponse(SW_UNKNOWN_ERROR)]
             ELSE [threw |-> FALSE, counter |-> ctr2, increments |-> inc,
                   response |-> handleReadNDEF(getReadOffset(command),
                                               getReadLength(command), ndefData)]))
    ELSE [threw |-> FALSE, counter |-> ctr, increments |-> 0,
          response |-> buildErrorResponse(SW_FILE_NOT_FOUND)]

\* NTAG424Service.handleSelectCommand: the callback stores the file id.
handleSelectCommand(command, sel) ==
    Bind(handleSelect(command), LAMBDA r :
        [response |-> r.response,
         fileSelected |-> r.selected # UNDEFINED,
         selectedFileId |-> IF r.selected # UNDEFINED THEN r.selected ELSE sel])

\* NTAG424Service.processAPDU: parse, route on INS, serialize; any Error
\* thrown on the way is answered with 6F00, what was changed before it stays.
processAPDU(commandBytes, selected, ctr, ks, base, cid) ==
    Bind(parseAPDU(commandBytes), LAMBDA command :
        IF command.threw
        THEN [bytes |-> serializeResponse(buildErrorResponse(SW_UNKNOWN_ERROR)),
              selectedFileId |-> selected, counter |-> ctr,
              increments |-> 0, fileSelected |-> FALSE]
        ELSE IF isSelectCommand(command)
        THEN Bind(handleSelectCommand(command, selected), LAMBDA sel :
                 [bytes |-> serializeResponse(sel.response),
                  selectedFileId |-> sel.selectedFileId, counter |-> ctr,
                  increments |-> 0, fileSelected |-> sel.fileSelected])
        ELSE IF isReadBinaryCommand(command)
        THEN Bind(handleReadBinary(command, selected, ctr, ks, base, cid), LAMBDA rd :
                 [bytes |-> IF rd.threw
                            THEN serializeResponse(buildErrorResponse(SW_UNKNOWN_ERROR))
                            ELSE serializeResponse(rd.response),
                  selectedFileId |-> selected, counter |-> rd.counter,
                  increments |-> rd.increments, fileSelected |-> FALSE])
        ELSE [bytes |-> serializeResponse(buildErrorResponse(SW_INSTRUCTION_NOT_SUPPORTED)),
              selectedFileId |-> selected, counter |-> ctr,
              increments |-> 0, fileSelected |-> FALSE])

\* ------------------------------------------------------------------------
\* StorageService (services/SDMService.ts, second half)
\* ------------------------------------------------------------------------

\* AsyncStorage holds no item under STORAGE_KEY.
NoConfig == [stored |-> FALSE]

\* DEFAULT_CONFIG of types/config.types.ts.
DEFAULT_CONFIG ==
    [stored |-> TRUE, counter |-> 0, cardId |-> << >>, enabled |-> FALSE,
     lnurlBase |-> "https://lnbits.com/boltcards/api/v1/scan"]

\* loadConfig: the stored item, or null when there is none or getItem failed.
loadConfig(item, ok) == IF ok THEN item ELSE NoConfig

\* config?.counter || 0
counterOr0(config) == IF config.stored THEN config.counter ELSE 0

\* StorageService.incrementCounter up to its call of updateConfig.
newCounterOf(config) == counterOr0(config) + 1

\* updateConfig: { ...DEFAULT_CONFIG, ...existing, ...partial } with
\* partial = { counter: newCounter }.
mergeConfig(existing, newCounter) ==
    [(IF existing.stored THEN existing ELSE DEFAULT_CONFIG) EXCEPT !.counter = newCounter]

\* ------------------------------------------------------------------------
\* Commands sent by the reader
\* ------------------------------------------------------------------------

SelectAID == << 0, 164, 4, 0, 7, 210, 118, 0, 0, 133, 1, 1 >>
SelectWrongAID == << 0, 164, 4, 0, 7, 160, 0, 0, 0, 0, 0, 0 >>
SelectShortAID == << 0, 164, 4, 0, 6, 210, 118, 0, 0, 133, 1 >>
SelectAIDNoData == << 0, 164, 4, 0 >>
SelectCC == << 0, 164, 0, 0, 2, 0, 1 >>
SelectNDEF == << 0, 164, 0, 0, 2, 0, 2 >>
SelectNDEF1 == << 0, 164, 0, 0, 1, 2 >>
SelectProprietary == << 0, 164, 0, 0, 1, 3 >>
SelectE104 == << 0, 164, 0, 0, 2, 225, 4 >>
SelectFile5 == << 0, 164, 0, 0, 1, 5 >>
SelectFile0100 == << 0, 164, 0, 0, 2, 1, 0 >>
SelectFileNoData == << 0, 164, 0, 0 >>
SelectByPath == << 0, 164, 2, 0, 2, 0, 2 >>
ReadFF == << 0, 176, 0, 0, 255 >>
Read00 == << 0, 176, 0, 0, 0 >>
ReadNoLe == << 0, 176, 0, 0 >>
ReadOffset16 == << 0, 176, 0, 16, 8 >>
ReadOffset256 == << 0, 176, 1, 0, 16 >>
UpdateBinary == << 0, 214, 0, 0, 1, 170 >>
ReadCLA90 == << 144, 176, 0, 0, 255 >>
TooShort == << 0, 176, 0 >>
Truncated == << 0, 164, 0, 0, 5, 0, 2 >>
GetData == << 0, 202, 0, 0 >>
SelectCLA80 == << 128, 164, 0, 0, 2, 0, 2 >>
EmptyCommand == << >>

Commands ==
    { SelectAID, SelectWrongAID, SelectShortAID, SelectAIDNoData, SelectCC,
      SelectNDEF, SelectNDEF1, SelectProprietary, SelectE104, SelectFile5,
      SelectFile0100, SelectFileNoData, SelectByPath, ReadFF, Read00, ReadNoLe,
      ReadOffset16, ReadOffset256, UpdateBinary, ReadCLA90, TooShort, Truncated,
      GetData, SelectCLA80, EmptyCommand }

StorageCommands == { SelectAID, SelectNDEF, ReadFF }

\* ------------------------------------------------------------------------
\* State
\* ------------------------------------------------------------------------

VARIABLES
    selectedFileId,  \* NTAG424Service.state.selectedFileId (NULL: none)
    counter,         \* NTAG424Service.state.counter, 3 bytes
    keys,            \* NTAG424Service.keys
    lnurlBase,       \* NTAG424Service.lnurlBase
    cardId,          \* NTAG424Service.cardId
    store,           \* the AsyncStorage item under STORAGE_KEY
    tasks,           \* the started incrementStorageCounter() calls
    faults,          \* AsyncStorage operations that have failed
    fresh,           \* history: no NDEF read at offset 0 since the last file SELECT
    last,            \* history: the last command, its response, the state before it
    readLog,         \* history: one entry per call of handleCounterIncrement
    hce,             \* HCEService: session, tag, isActive, currentContent
    event,           \* history: the kind of the last step
    saving,          \* ConfigScreen.handleSave: the call in flight
    home,            \* HomeScreen: enabled, supported
    appLog,          \* history: the URLs enabled and the URLs served to readers
    early,           \* history: the answers the bridge gave before its session was there
    call             \* a call of a pure function: its arguments and its result

\* The screens' state and the histories of the application.
uiVars == << saving, home, appLog, early, call >>

vars ==
    << selectedFileId, counter, keys, lnurlBase, cardId, store, tasks, faults,
       fresh, last, readLog, hce, event, uiVars >>

\* HCEService.tag before the first enable(): null.
NoTag == [type |-> "none", content |-> << >>, writable |-> FALSE]

\* "https://example.com", the content enable() falls back to.
StrExample ==
    << 104, 116, 116, 112, 115, 58, 47, 47, 101, 120, 97, 109, 112, 108,
    101, 46, 99, 111, 109 >>

\* The URLs enable() is called with: none (the argument is left out) and
\* "lnurlw://ln.io/s/c1?p=00&c=00".
EnableUrls ==
    { << >>,
      << 108, 110, 117, 114, 108, 119, 58, 47, 47, 108, 110, 46, 105, 111,
      47, 115, 47, 99, 49, 63, 112, 61, 48, 48, 38, 99, 61, 48, 48 >> }

\* HCEService.session once HCESession.getInstance() has resolved: the
\* session object (NULL before).
HCESession == 1

\* No handleSave is running; n counts the calls made.
NotSaving == [pc |-> "idle", config |-> NoConfig, n |-> 0]

\* No pure function is under call.
NoCall == [fn |-> "none"]

NoCommand == [cmd |-> << >>, resp |-> << >>, selectedFileId |-> NULL, counter |-> << >>]

\* new NTAG424Service(keys, lnurlBase, cardId, counterValue) with the
\* counterValue read from the store (0 when nothing is stored).
Init ==
    /\ \E c0 \in InitCounters :
         /\ counter = numberToBytes(c0, 3)
         /\ store \in { [DEFAULT_CONFIG EXCEPT !.counter = c0, !.cardId = CardIdIn] }
                        \cup (IF c0 = 0 THEN { NoConfig } ELSE { })
    /\ keys \in KeySets
    /\ lnurlBase = LnurlBaseIn
    /\ cardId = CardIdIn
    /\ selectedFileId = NULL
    /\ tasks = << >>
    /\ faults = 0
    /\ fresh = FALSE
    /\ last = NoCommand
    /\ readLog = << >>
    /\ hce = [session |-> NULL, initialising |-> TRUE, tag |-> NoTag,
              isActive |-> FALSE, currentContent |-> << >>]
    /\ event = "none"
    /\ saving = NotSaving
    /\ home = [enabled |-> FALSE, supported |-> FALSE, checked |-> FALSE]
    /\ early = { }
    /\ appLog = << >>
    /\ call = NoCall

\* A card that is not used: the state around a call of a pure function.
CardAtRest ==
    /\ counter = numberToBytes(0, 3)
    /\ store = NoConfig
    /\ keys = GoodKeys
    /\ lnurlBase = LnurlBaseIn
    /\ cardId = CardIdIn
    /\ selectedFileId = NULL
    /\ tasks = << >>
    /\ faults = 0
    /\ fresh = FALSE
    /\ last = NoCommand
    /\ readLog = << >>
    /\ hce = [session |-> NULL, initialising |-> TRUE, tag |-> NoTag,
              isActive |-> FALSE, currentContent |-> << >>]
    /\ event = "none"
    /\ saving = NotSaving
    /\ home = [enabled |-> FALSE, supported |-> FALSE, checked |-> FALSE]
    /\ appLog = << >>
    /\ early = { }

\* A call of buildNDEFMessage (resp. verifyCMAC) is about to be made.
InitNdef == CardAtRest /\ call \in NdefCalls
InitCmac == CardAtRest /\ call \in CmacCalls

statusWord(resp) == << resp[Len(resp) - 1], resp[Len(resp)] >>
responseData(resp) == SubSeq(resp, 1, Len(resp) - 2)

\* processAPDU(c): the whole handler, the start of the storage increment
\* included.  The call of incrementStorageCounter() runs up to its first
\* await, so the task it leaves behind is about to load the config.
APDU(c, limit) ==
    \E r \in { processAPDU(c, selectedFileId, counter, keys, lnurlBase, cardId) } :
        /\ Len(readLog) + r.increments <= limit
        /\ selectedFileId' = r.selectedFileId
        /\ counter' = r.counter
        /\ tasks' = IF r.increments = 1
                    THEN Append(tasks, [pc |-> "loadConfig", newCounter |-> 0,
                                        updated |-> NoConfig])
                    ELSE tasks
        /\ fresh' = IF r.fileSelected THEN TRUE
                    ELSE IF r.increments = 1 THEN FALSE ELSE fresh
        /\ last' = [cmd |-> c, resp |-> r.bytes, selectedFileId |-> selectedFileId,
                    counter |-> counter]
        /\ readLog' = IF r.increments = 1
                      THEN Append(readLog,
                                  [before |-> counter, after |-> r.counter,
                                   sw |-> statusWord(r.bytes),
                                   data |-> responseData(r.bytes),
                                   first |-> fresh, stored |-> store])
                      ELSE readLog
        /\ event' = "apdu"
        /\ UNCHANGED << keys, lnurlBase, cardId, store, faults, hce, uiVars >>

\* StorageService.incrementCounter, first await: loadConfig().
LoadStep(i, ok) ==
    /\ tasks[i].pc = "loadConfig"
    /\ ok \/ faults < MaxFaults
    /\ faults' = IF ok THEN faults ELSE faults + 1
    /\ tasks' = [tasks EXCEPT ![i] = [pc |-> "updateConfig",
                                      newCounter |-> newCounterOf(loadConfig(store, ok)),
                                      updated |-> NoConfig]]
    /\ UNCHANGED << selectedFileId, counter, keys, lnurlBase, cardId, store,
                    fresh, last, readLog, hce, event, uiVars >>

\* updateConfig, first await: loadConfig(), then the merge.
UpdateStep(i, ok) ==
    /\ tasks[i].pc = "updateConfig"
    /\ ok \/ faults < MaxFaults
    /\ faults' = IF ok THEN faults ELSE faults + 1
    /\ tasks' = [tasks EXCEPT ![i] = [pc |-> "saveConfig",
                                      newCounter |-> tasks[i].newCounter,
                                      updated |-> mergeConfig(loadConfig(store, ok),
                                                              tasks[i].newCounter)]]
    /\ UNCHANGED << selectedFileId, counter, keys, lnurlBase, cardId, store,
                    fresh, last, readLog, hce, event, uiVars >>

\* updateConfig, second await: saveConfig(updated); a failure of setItem is
\* rethrown, rejects the promise and is logged by handleCounterIncrement's catch.
SaveStep(i, ok) ==
    /\ tasks[i].pc = "saveConfig"
    /\ ok \/ faults < MaxFaults
    /\ faults' = IF ok THEN faults ELSE faults + 1
    /\ store' = IF ok THEN tasks[i].updated ELSE store
    /\ tasks' = [tasks EXCEPT ![i].pc = IF ok THEN "resolved" ELSE "rejected"]
    /\ UNCHANGED << selectedFileId, counter, keys, lnurlBase, cardId,
                    fresh, last, readLog, hce, event, uiVars >>

\* HCEService.enable(ndefUrl) on the bridge h: without a session it throws
\* 'HCE not available on this platform'; otherwise the tag is built and set
\* as the application, then setEnabled(true) resolves (ok) or rejects, and
\* only when it resolves are isActive and currentContent written.
enable(h, ndefUrl, ok) ==
    IF h.session = NULL
    THEN [hce |-> h, threw |-> "notAvailable"]
    ELSE [hce |->
            [h EXCEPT
               !.tag = [type |-> "URL", writable |-> FALSE,
                        content |-> IF ndefUrl # << >> THEN ndefUrl
                                    ELSE IF h.currentContent # << >>
                                    THEN h.currentContent ELSE StrExample],
               !.isActive = IF ok THEN TRUE ELSE h.isActive,
               !.currentContent =
                   IF ~ok THEN h.currentContent
                   ELSE IF ndefUrl # << >> THEN ndefUrl
                   ELSE IF h.currentContent # << >>
                   THEN h.currentContent ELSE StrExample],
          threw |-> IF ok THEN "none" ELSE "setEnabled"]

\* HCEService.disable() on the bridge h: setEnabled(false) resolves or rejects.
disable(h, ok) ==
    IF h.session = NULL
    THEN [hce |-> h, threw |-> "notAvailable"]
    ELSE [hce |-> [h EXCEPT !.isActive = IF ok THEN FALSE ELSE h.isActive],
          threw |-> IF ok THEN "none" ELSE "setEnabled"]

\* HCEService.initSession, started by the constructor: getInstance()
\* resolves (the session is kept) or rejects (the error is logged).
InitSession(ok) ==
    /\ hce.initialising
    /\ hce' = [hce EXCEPT !.initialising = FALSE,
                          !.session = IF ok THEN HCESession ELSE NULL]
    /\ event' = "initSession"
    /\ UNCHANGED << selectedFileId, counter, keys, lnurlBase, cardId, store,
                    tasks, faults, fresh, last, readLog, uiVars >>

\* A call of HCEService.enable(ndefUrl).
Enable(ndefUrl, ok) ==
    \E r \in { enable(hce, ndefUrl, ok) } :
        /\ hce' = r.hce
        /\ event' = IF r.threw = "none" THEN "enabled"
                    ELSE IF r.threw = "notAvailable" THEN "enableNotAvailable"
                    ELSE "enableFailed"
        /\ early' = IF r.threw = "notAvailable" /\ hce.initialising
                    THEN early \cup { "enable" } ELSE early
        /\ UNCHANGED << selectedFileId, counter, keys, lnurlBase, cardId, store,
                        tasks, faults, fresh, last, readLog, saving, home,
                        appLog, call >>

\* A call of HCEService.disable().
Disable(ok) ==
    \E r \in { disable(hce, ok) } :
        /\ hce' = r.hce
        /\ event' = IF r.threw = "none" THEN "disabled"
                    ELSE IF r.threw = "notAvailable" THEN "disableNotAvailable"
                    ELSE "disableFailed"
        /\ UNCHANGED << selectedFileId, counter, keys, lnurlBase, cardId, store,
                        tasks, faults, fresh, last, readLog, uiVars >>

\* HomeScreen.checkSupport, run once when the screen mounts: the answer of
\* HCEService.isSupported() (on Android: session !== null) becomes `supported`.
CheckSupport ==
    /\ ~home.checked
    /\ home' = [home EXCEPT !.checked = TRUE, !.supported = (hce.session # NULL)]
    /\ early' = IF hce.session = NULL /\ hce.initialising
                THEN early \cup { "isSupported" } ELSE early
    /\ event' = "checkSupport"
    /\ UNCHANGED << selectedFileId, counter, keys, lnurlBase, cardId, store,
                    tasks, faults, fresh, last, readLog, hce, saving, appLog, call >>

\* HomeScreen.handleToggle, the switch being shown only when `supported`.
\* Enabled: disable().  Not enabled: the stored config is loaded (an alert
\* when there is none), the SDM URL is built from its keys and its counter
\* (the keys and the LNURL base are those the card was configured with), and
\* enable(lnurlUrl) is called.  Any error ends in an alert and leaves
\* `enabled` as it was.
Toggle(okLoad, okHce) ==
    /\ home.supported
    /\ Len(appLog) < MaxLog
    /\ (okLoad \/ home.enabled) \/ faults < MaxFaults
    /\ faults' = IF okLoad \/ home.enabled THEN faults ELSE faults + 1
    /\ IF home.enabled
       THEN \E r \in { disable(hce, okHce) } :
               /\ hce' = r.hce
               /\ home' = [home EXCEPT !.enabled = (r.threw # "none")]
               /\ appLog' = appLog
               /\ event' = IF r.threw = "none" THEN "toggledOff" ELSE "toggleFailed"
       ELSE \E config \in { loadConfig(store, okLoad) } :
               IF ~config.stored
               THEN /\ event' = "toggleNotConfigured"
                    /\ UNCHANGED << hce, home, appLog >>
               ELSE \E url \in { toggleURL(keys, numberToBytes(config.counter, 3),
                                            lnurlBase, config.cardId) } :
                       IF url = THROWN
                       THEN /\ event' = "toggleFailed"
                            /\ UNCHANGED << hce, home, appLog >>
                       ELSE \E r \in { enable(hce, url, okHce) } :
                               /\ hce' = r.hce
                               /\ home' = [home EXCEPT !.enabled = (r.threw = "none")]
                               /\ appLog' = IF r.threw = "none"
                                            THEN Append(appLog,
                                                        [kind |-> "enable",
                                                         content |-> url,
                                                         stored |-> config.counter])
                                            ELSE appLog
                               /\ event' = IF r.threw = "none" THEN "toggledOn"
                                           ELSE "toggleFailed"
    /\ UNCHANGED << selectedFileId, counter, keys, lnurlBase, cardId, store,
                    tasks, fresh, last, readLog, saving, early, call >>

\* A reader taps the phone while the emulation is enabled: the NFCTagType4
\* set as the application serves its content, and the HCE_STATE_READ listener
\* logs.
Tap ==
    /\ hce.isActive
    /\ Len(appLog) < MaxLog
    /\ appLog' = Append(appLog, [kind |-> "tap", content |-> hce.tag.content,
                                 stored |-> counterOr0(store)])
    /\ event' = "read"
    /\ UNCHANGED << selectedFileId, counter, keys, lnurlBase, cardId, store,
                    tasks, faults, fresh, last, readLog, hce, saving, home,
                    early, call >>

\* The HCE_STATE_DISCONNECTED listener: it logs.
Disconnected ==
    /\ hce.isActive
    /\ event' = "disconnected"
    /\ UNCHANGED << selectedFileId, counter, keys, lnurlBase, cardId, store,
                    tasks, faults, fresh, last, readLog, hce, uiVars >>

\* ConfigScreen.handleSave up to the end of its first await: the fields pass
\* the validation, the config is built with counter 0 and enabled false, and
\* loadConfig() resolves; its counter and enabled replace those of the config
\* when something is stored.
HandleSaveLoad(ok) ==
    /\ saving.pc \in { "idle", "saved", "failed" }
    /\ saving.n < MaxSaves
    /\ ok \/ faults < MaxFaults
    /\ faults' = IF ok THEN faults ELSE faults + 1
    /\ \E existing \in { loadConfig(store, ok) } :
         saving' = [pc |-> "saveConfig", n |-> saving.n + 1,
                    config |-> [stored |-> TRUE,
                                lnurlBase |-> DEFAULT_CONFIG.lnurlBase,
                                cardId |-> cardId,
                                counter |-> IF existing.stored
                                            THEN existing.counter ELSE 0,
                                enabled |-> IF existing.stored
                                            THEN existing.enabled ELSE FALSE]]
    /\ UNCHANGED << selectedFileId, counter, keys, lnurlBase, cardId, store,
                    tasks, fresh, last, readLog, hce, event, home, appLog, early, call >>

\* ConfigScreen.handleSave, second await: saveConfig(config); a failure is
\* caught and shown as an alert.
HandleSaveWrite(ok) ==
    /\ saving.pc = "saveConfig"
    /\ ok \/ faults < MaxFaults
    /\ faults' = IF ok THEN faults ELSE faults + 1
    /\ store' = IF ok THEN saving.config ELSE store
    /\ saving' = [saving EXCEPT !.pc = IF ok THEN "saved" ELSE "failed"]
    /\ UNCHANGED << selectedFileId, counter, keys, lnurlBase, cardId,
                    tasks, fresh, last, readLog, hce, event, home, appLog, early, call >>

\* The call of buildNDEFMessage(call.url).
BuildNDEFMessage ==
    /\ call.fn = "buildNDEFMessage"
    /\ ~call.done
    /\ call' = [call EXCEPT !.done = TRUE, !.result = buildNDEFMessage(call.url)]
    /\ UNCHANGED << selectedFileId, counter, keys, lnurlBase, cardId, store,
                    tasks, faults, fresh, last, readLog, hce, event, saving,
                    home, appLog, early >>

\* The call of verifyCMAC(call.key, call.message, call.tag).
VerifyCMAC ==
    /\ call.fn = "verifyCMAC"
    /\ ~call.done
    /\ \E r \in { verifyCMAC(call.key, call.message, call.tag) } :
         /\ ~r.threw
         /\ call' = [call EXCEPT !.done = TRUE, !.valid = r.valid]
    /\ UNCHANGED << selectedFileId, counter, keys, lnurlBase, cardId, store,
                    tasks, faults, fresh, last, readLog, hce, event, saving,
                    home, appLog, early >>

\* The card as its reader drives it.  The storage increments are started and
\* left pending: they write neither the selection nor state.counter.
Next == \E c \in Commands : APDU(c, MaxReads)

Spec == Init /\ [][Next]_vars

\* The card together with the storage increments it starts.
NextStorage ==
    \/ \E c \in StorageCommands : APDU(c, MaxTasks)
    \/ \E i \in 1..Len(tasks), ok \in BOOLEAN : LoadStep(i, ok)
    \/ \E i \in 1..Len(tasks), ok \in BOOLEAN : UpdateStep(i, ok)
    \/ \E i \in 1..Len(tasks), ok \in BOOLEAN : SaveStep(i, ok)

SpecStorage == Init /\ [][NextStorage]_vars

\* The card, its storage increments and the Config screen's "Save".
NextConfig ==
    \/ \E c \in StorageCommands : APDU(c, MaxTasks)
    \/ \E i \in 1..Len(tasks), ok \in BOOLEAN : LoadStep(i, ok)
    \/ \E i \in 1..Len(tasks), ok \in BOOLEAN : UpdateStep(i, ok)
    \/ \E i \in 1..Len(tasks), ok \in BOOLEAN : SaveStep(i, ok)
    \/ \E ok \in BOOLEAN : HandleSaveLoad(ok)
    \/ \E ok \in BOOLEAN : HandleSaveWrite(ok)

SpecConfig == Init /\ [][NextConfig]_vars

\* The commands of a tap.
TapCommands == { SelectAID, SelectNDEF, SelectCC, ReadFF }

\* A command of the reader, which arrives while the emulation is enabled.
ReaderAPDU(c) == hce.isActive /\ APDU(c, MaxReads)

\* The card under the emulation switch.
NextHCE ==
    \/ \E c \in TapCommands : ReaderAPDU(c)
    \/ \E ndefUrl \in EnableUrls, ok \in BOOLEAN : Enable(ndefUrl, ok)
    \/ \E ok \in BOOLEAN : Disable(ok)
    \/ Disconnected
    \/ \E ok \in BOOLEAN : InitSession(ok)
    \/ CheckSupport

SpecHCE == Init /\ [][NextHCE]_vars

\* The NDEF builder and the CMAC verification on their own.
NextNdef == BuildNDEFMessage

SpecNdef == InitNdef /\ [][NextNdef]_vars

NextCmac == VerifyCMAC

SpecCmac == InitCmac /\ [][NextCmac]_vars

\* The application as wired: the Home screen, the bridge and the readers.
NextApp ==
    \/ \E ok \in BOOLEAN : InitSession(ok)
    \/ CheckSupport
    \/ \E okLoad \in BOOLEAN, okHce \in BOOLEAN : Toggle(okLoad, okHce)
    \/ Tap

SpecApp == Init /\ [][NextApp]_vars

\* ------------------------------------------------------------------------
\* Properties
\* ------------------------------------------------------------------------

OK9000 == << 144, 0 >>
SW6982 == << 105, 130 >>
SW6A82 == << 106, 130 >>
SW6A86 == << 106, 134 >>
SW6F00 == << 111, 0 >>

\* A command has been processed.
Ran == last # NoCommand

\* The last command as parseAPDU sees it.
lastCommand == parseAPDU(last.cmd)

lastStatus == statusWord(last.resp)
lastData == responseData(last.resp)

\* The last command was a READ BINARY (resp. a SELECT) that parsed.
lastIsRead == Ran /\ ~lastCommand.threw /\ isReadBinaryCommand(lastCommand)
lastIsSelect == Ran /\ ~lastCommand.threw /\ isSelectCommand(lastCommand)

\* The last command was a READ BINARY at offset 0 with the NDEF file selected.
lastIsNdefReadAt0 ==
    /\ lastIsRead
    /\ last.selectedFileId = FILE_NDEF
    /\ getReadOffset(lastCommand) = 0

\* The counter i increments after the one the card started with.
CounterAfter(i) ==
    numberToBytes((bytesToNumber(readLog[1].before) + i) % 16777216, 3)

\* The NDEF file built for the counter value ctr.
NdefFor(ctr) == generateNDEFData(keys, ctr, lnurlBase, cardId)

\* C1: in any sequence of NDEF reads at offset 0 answered 9000, the i-th read
\* is built from the counter of the previous read plus 1 modulo 2^24 (FFFFFF
\* is followed by 000000), and the bytes it returns are the leading bytes of
\* the NDEF file generated for exactly that counter.
C1_SuccessiveReadsStepByOne ==
    \A i \in 1..Len(readLog) :
        readLog[i].sw = OK9000 =>
            /\ readLog[i].after = CounterAfter(i)
            /\ readLog[i].data = slice(NdefFor(CounterAfter(i)), 0, Len(readLog[i].data))
            /\ (i > 1 /\ readLog[i - 1].sw = OK9000) =>
                   bytesToNumber(readLog[i].after) =
                       (bytesToNumber(readLog[i - 1].after) + 1) % 16777216

\* C1 witness: two successive reads answered 9000 with data, the first built
\* from FFFFFF and the next from 000000.
C1_WrapWitness ==
    \E i \in 2..Len(readLog) :
        /\ readLog[i - 1].sw = OK9000 /\ readLog[i].sw = OK9000
        /\ readLog[i - 1].after = << 255, 255, 255 >>
        /\ readLog[i].after = << 0, 0, 0 >>
        /\ readLog[i - 1].data # << >> /\ readLog[i].data # << >>
        /\ readLog[i - 1].data # readLog[i].data

\* C2: the counter changes exactly on a READ BINARY of file 02 at offset 0
\* that is answered 9000 with NDEF data; no other command, and no command
\* answered with an error status or without data, changes it.  Stated for a
\* card with well-formed keys, whose NDEF generation never throws.
C2_CounterChangesOnlyOnSuccessfulRead ==
    (Ran /\ keys = GoodKeys) =>
            ((counter # last.counter) <=>
                (lastIsNdefReadAt0 /\ lastStatus = OK9000 /\ lastData # << >>))

\* C3: when processAPDU returns the answer of an NDEF read that incremented
\* the counter, the store already holds the incremented counter.
C3_PersistedBeforeResponse ==
    \A i \in 1..Len(readLog) :
        readLog[i].sw = OK9000 =>
            /\ readLog[i].stored.stored
            /\ readLog[i].stored.counter = bytesToNumber(readLog[i].after)

\* C4: a read whose storage increment failed was answered 6F00 without data
\* and left the counter unchanged (on a card with well-formed keys).
C4_FailedPersistenceAnswers6F00 ==
    \A i \in 1..Len(tasks) :
        (keys = GoodKeys /\ tasks[i].pc = "rejected") =>
            /\ readLog[i].sw = SW6F00
            /\ readLog[i].data = << >>
            /\ readLog[i].after = readLog[i].before

\* C5: once the storage increments of k reads have all completed, without any
\* storage failure, the stored counter has advanced by k and equals the
\* in-memory counter (on a card with well-formed keys).
C5_IncrementsAreAtomic ==
    (/\ keys = GoodKeys
     /\ Len(tasks) > 0
     /\ faults = 0
     /\ \A i \in 1..Len(tasks) : tasks[i].pc = "resolved")
    => /\ store.stored
       /\ store.counter % 16777216 = bytesToNumber(counter)

\* C6: a READ BINARY received while no file is selected is answered 6982
\* without data and leaves the counter and the selection unchanged.
C6_ReadWithoutFileIs6982 ==
    (lastIsRead /\ last.selectedFileId = NULL) =>
        /\ last.resp = SW6982
        /\ counter = last.counter
        /\ selectedFileId = NULL

\* C6 witness: READ BINARY 00 B0 00 00 FF arrived with no file selected.
C6_ReadBeforeSelectWitness ==
    /\ last.cmd = ReadFF
    /\ last.selectedFileId = NULL
    /\ last.resp = SW6982
    /\ readLog = << >>

\* The last command was a SELECT by DF-name (P1 = 04).
lastIsSelectByName == lastIsSelect /\ isSelectByAID(lastCommand)

\* C7 as stated: every SELECT by DF-name whose data is not the AID is
\* answered 6A82 and leaves the state unchanged.
C7_WrongNameIs6A82 ==
    (lastIsSelectByName /\ lastCommand.data # NTAG424_AID) =>
        /\ last.resp = SW6A82
        /\ selectedFileId = last.selectedFileId
        /\ counter = last.counter

\* C7 amended: a SELECT by DF-name that carries a data field other than the
\* AID is answered 6A82, one that carries no data field is answered 6A86, and
\* both leave the selection and the counter unchanged (so that from the
\* initial state no file is selected afterwards).
C7_WrongNameIs6A82OrNoName6A86 ==
    (lastIsSelectByName /\ lastCommand.data # NTAG424_AID) =>
        /\ last.resp = IF lastCommand.data = NO_DATA THEN SW6A86 ELSE SW6A82
        /\ selectedFileId = last.selectedFileId
        /\ counter = last.counter

\* C7 witness: a wrong AID was refused with the NDEF file selected, which
\* stays selected.
C7_WrongNameWitness ==
    /\ last.cmd = SelectWrongAID
    /\ last.resp = SW6A82
    /\ last.selectedFileId = FILE_NDEF
    /\ selectedFileId = FILE_NDEF

\* C8: a SELECT by DF-name with the matching AID is answered 9000 and leaves
\* no file selected.
C8_SelectNameDeselectsFile ==
    (lastIsSelectByName /\ lastCommand.data = NTAG424_AID) =>
        /\ last.resp = OK9000
        /\ selectedFileId = NULL

\* The file id of the last command, a SELECT by file id with data of one or
\* two bytes: the bytes read big-endian.
lastFileId == bytesToNumber(lastCommand.data)

\* C9: a SELECT by file id with data of one or two bytes is answered 9000
\* exactly when the id, read big-endian, is 1, 2 or 3, and then that file is
\* the selected one; any other id is answered 6A82 and the selection stays as
\* it was.
C9_SelectFileAcceptsCcNdefProprietary ==
    (/\ lastIsSelect
     /\ isSelectByFileID(lastCommand)
     /\ lastCommand.data # NO_DATA
     /\ Len(lastCommand.data) \in { 1, 2 })
    => /\ counter = last.counter
       /\ IF lastFileId \in { 1, 2, 3 }
          THEN last.resp = OK9000 /\ selectedFileId = lastFileId
          ELSE last.resp = SW6A82 /\ selectedFileId = last.selectedFileId

\* C9 witness: file 0100 was refused while the CC file was selected, after an
\* earlier SELECT had replaced the NDEF file by the CC file.
C9_SelectFileWitness ==
    /\ last.cmd = SelectFile0100
    /\ last.resp = SW6A82
    /\ last.selectedFileId = FILE_CC
    /\ selectedFileId = FILE_CC

lastIsNdefFragmentRead ==
    /\ lastIsRead
    /\ last.selectedFileId = FILE_NDEF
    /\ getReadOffset(lastCommand) # 0
    /\ Len(readLog) > 0
    /\ readLog[Len(readLog)].sw = OK9000

\* C11: a READ BINARY of file 02 at a non-zero offset that follows an
\* offset-0 read leaves the counter alone and is answered 9000 with the bytes
\* offset .. offset+Le of one NDEF byte string, the same string whose leading
\* bytes the offset-0 read returned.
C11_FragmentsOfOneNdef ==
    lastIsNdefFragmentRead =>
        /\ counter = last.counter
        /\ counter = readLog[Len(readLog)].after
        /\ lastStatus = OK9000
        /\ \E ndef \in { NdefFor(readLog[Len(readLog)].after) } :
              /\ readLog[Len(readLog)].data =
                     slice(ndef, 0, Len(readLog[Len(readLog)].data))
              /\ lastData = slice(ndef, getReadOffset(lastCommand),
                                  getReadOffset(lastCommand) + getReadLength(lastCommand))

\* C11 witness: bytes 16..23 were read right after an offset-0 read that
\* returned the whole file, and they are bytes 16..23 of what that read returned.
C11_FragmentWitness ==
    /\ lastIsNdefFragmentRead
    /\ last.cmd = ReadOffset16
    /\ ~fresh
    /\ Len(readLog[Len(readLog)].data) > 24
    /\ lastData = SubSeq(readLog[Len(readLog)].data, 17, 24)

\* The position of the first occurrence of pat in s at or after i (0: none).
RECURSIVE indexOf(_, _, _)
indexOf(s, pat, i) ==
    IF i + Len(pat) - 1 > Len(s) THEN 0
    ELSE IF SubSeq(s, i, i + Len(pat) - 1) = pat THEN i
    ELSE indexOf(s, pat, i + 1)

\* The value of the URL parameter p in an NDEF response: the 20 characters
\* (10 bytes in hexadecimal) after "?p="; << >> when the response has none.
pParam(data) ==
    LET at == indexOf(data, StrP, 1)
    IN  IF at = 0 \/ at + Len(StrP) + 19 > Len(data) THEN << >>
        ELSE SubSeq(data, at + Len(StrP), at + Len(StrP) + 19)

\* C12: any two NDEF reads at offset 0 that return the p parameter return
\* different values of it.
C12_EachTapHasItsOwnP ==
    \A i, j \in 1..Len(readLog) :
        (/\ i < j
         /\ readLog[i].sw = OK9000 /\ readLog[j].sw = OK9000
         /\ pParam(readLog[i].data) # << >>
         /\ pParam(readLog[j].data) # << >>)
        => pParam(readLog[i].data) # pParam(readLog[j].data)

\* C12 witness: two successive taps, each a SELECT of the NDEF file followed by
\* 00 B0 00 00 FF, whose responses carry different p parameters.
C12_TwoTapsWitness ==
    /\ Len(readLog) >= 2
    /\ readLog[1].first /\ readLog[2].first
    /\ readLog[1].sw = OK9000 /\ readLog[2].sw = OK9000
    /\ Len(pParam(readLog[1].data)) = 20
    /\ Len(pParam(readLog[2].data)) = 20
    /\ pParam(readLog[1].data) # pParam(readLog[2].data)
    /\ last.cmd = ReadFF

\* The value of the URL parameter c in an NDEF response: the 16 characters
\* (8 bytes in hexadecimal) after "&c="; << >> when the response has none.
cParam(data) ==
    LET at == indexOf(data, StrC, 1)
    IN  IF at = 0 \/ at + Len(StrC) + 15 > Len(data) THEN << >>
        ELSE SubSeq(data, at + Len(StrC), at + Len(StrC) + 15)

\* The session keys a server derives from the master keys of a well-formed card.
ServerKeys == deriveSDMSessionKeys(GoodKeys.K1, GoodKeys.K2)

\* What the server's AES-CTR decryption with IV 0 makes of the p parameters
\* that a well-formed card can emit.
ServerPlain ==
    [p \in { pParam(NdefTable[GoodKeys, ctr, LnurlBaseIn, CardIdIn]) : ctr \in TableCounters } |->
        aesDecryptCTR(ServerKeys.KSesSDMFileEnc, zeros(16), hexToBytes(p))] @@ << >>

\* The truncated CMAC the server recomputes over UID || ctr.
ServerMac ==
    [ctr \in TableCounters |->
        cmacSDM(ServerKeys.KSesSDMFileReadMAC, GoodKeys.UID \o ctr)] @@ << >>

\* The counter one increment after ctr, as 3 bytes big-endian.
Successor(ctr) == numberToBytes((bytesToNumber(ctr) + 1) % 16777216, 3)

\* C13: for every NDEF response that carries p and c, decrypting p under
\* K_SesEnc with IV 0 yields UID || Counter, with Counter the 3-byte
\* big-endian value produced by this read's increment, and the CMAC
\* recomputed over UID || Counter under K_SesMac, cut to 8 bytes, equals c.
C13_ServerRecoversUidAndCounter ==
    \A i \in 1..Len(readLog) :
        (/\ readLog[i].sw = OK9000
         /\ pParam(readLog[i].data) # << >>
         /\ cParam(readLog[i].data) # << >>)
        => /\ pParam(readLog[i].data) \in DOMAIN ServerPlain
           /\ ServerPlain[pParam(readLog[i].data)] =
                  keys.UID \o Successor(readLog[i].before)
           /\ Successor(readLog[i].before) \in DOMAIN ServerMac
           /\ hexToBytes(cParam(readLog[i].data)) =
                  ServerMac[Successor(readLog[i].before)]

\* C13 witness: a response whose p decrypts to 04 AA BB CC DD EE FF 00 00 02,
\* the second read of a card that started at 000000.
C13_DecryptsWitness ==
    /\ Len(readLog) >= 2
    /\ readLog[2].sw = OK9000
    /\ readLog[2].before = << 0, 0, 1 >>
    /\ pParam(readLog[2].data) \in DOMAIN ServerPlain
    /\ ServerPlain[pParam(readLog[2].data)] = << 4, 170, 187, 204, 221, 238, 255, 0, 0, 2 >>
    /\ Len(cParam(readLog[2].data)) = 16

SW6D00 == << 109, 0 >>
SW6E00 == << 110, 0 >>

\* The last command left the selected file and the counter as they were.
lastLeftStateUnchanged ==
    /\ selectedFileId = last.selectedFileId
    /\ counter = last.counter

\* C14: a command that parses and whose INS is neither A4 nor B0 is answered
\* with the two bytes 6D 00 and leaves the selected file and the counter
\* unchanged.
C14_OtherInsIs6D00 ==
    (/\ Ran
     /\ ~lastCommand.threw
     /\ lastCommand.INS \notin { INS_SELECT, INS_READ_BINARY })
    => (last.resp = SW6D00 /\ lastLeftStateUnchanged)

\* C14 witness: UPDATE BINARY arrived after an NDEF read, with the NDEF file
\* selected, and was refused with 6D00.
C14_UpdateBinaryWitness ==
    /\ last.cmd = UpdateBinary
    /\ last.resp = SW6D00
    /\ last.selectedFileId = FILE_NDEF
    /\ selectedFileId = FILE_NDEF
    /\ Len(readLog) > 0
    /\ counter = readLog[Len(readLog)].after

\* C15: a command whose CLA is not 00 is answered 6E00 and is not executed:
\* it changes neither the selected file nor the counter.
C15_OtherClaIs6E00 ==
    (Ran /\ ~lastCommand.threw /\ lastCommand.CLA # 0)
    => (last.resp = SW6E00 /\ lastLeftStateUnchanged)

\* The last command does not parse: it is shorter than 4 bytes, or longer
\* than 5 bytes with an Lc that exceeds the number of bytes after it.
lastIsUnparseable ==
    /\ Ran
    /\ \/ Len(last.cmd) < 4
       \/ (Len(last.cmd) > 5 /\ last.cmd[5] > Len(last.cmd) - 5)

\* C16: unparseable input is answered with exactly the two bytes 6F 00 and
\* leaves the selected file and the counter unchanged.
C16_UnparseableIs6F00 ==
    lastIsUnparseable => (last.resp = SW6F00 /\ lastLeftStateUnchanged)

\* C16 witness: a SELECT of file 02 cut short (Lc = 5, two bytes of data) was
\* refused with 6F00 while the CC file was selected.
C16_TruncatedWitness ==
    /\ last.cmd = Truncated
    /\ last.resp = SW6F00
    /\ last.selectedFileId = FILE_CC
    /\ selectedFileId = FILE_CC

\* The status words processAPDU can answer with.
StatusWords == { OK9000, SW6982, SW6A82, SW6A86, SW6D00, SW6F00 }

\* C17: whatever the input and the state, keys that make the SDM builder
\* throw included, processAPDU returns a well-formed response: bytes only, at
\* least two of them, ending in a status word, with data before the status
\* word only when the status is 9000.
C17_ResponseIsWellFormed ==
    Ran =>
        /\ Len(last.resp) >= 2
        /\ \A i \in 1..Len(last.resp) : last.resp[i] \in Byte
        /\ lastStatus \in StatusWords
        /\ (Len(last.resp) > 2) => (lastStatus = OK9000)

\* C17 witness: with a K1 of 15 bytes the SDM builder threw during a read of
\* the NDEF file, and the response was the two bytes 6F 00.
C17_BuilderThrewWitness ==
    /\ keys = ShortK1Keys
    /\ last.cmd = ReadFF
    /\ last.selectedFileId = FILE_NDEF
    /\ last.resp = SW6F00

\* The offset and the length a READ BINARY of 4 or 5 bytes asks for, taken
\* from its bytes: P1 * 256 + P2, and Le with 00 standing for 256 (no Le: 0).
rawOffset == (last.cmd[3] * 256) + last.cmd[4]
rawLength ==
    IF Len(last.cmd) < 5 THEN 0
    ELSE IF last.cmd[5] = 0 THEN 256 ELSE last.cmd[5]

\* The content of the file that was selected when the last command arrived.
selectedContent ==
    IF last.selectedFileId = FILE_CC THEN << 225, 64, 0, 64, 0, 0 >>
    ELSE NdefFor(counter)

\* The last command was a READ BINARY of 4 or 5 bytes on a selected file that
\* can be read: the CC file, or the NDEF file of a card whose SDM builder
\* does not throw.
lastIsReadOfReadableFile ==
    /\ lastIsRead
    /\ Len(last.cmd) <= 5
    /\ last.selectedFileId \in { FILE_CC, FILE_NDEF }
    /\ selectedContent # THROWN

\* C18: READ BINARY on a selected readable file is answered 9000 with exactly
\* data[offset .. min(offset + Le, len)], offset = P1 * 256 + P2, Le = 0
\* meaning 256, and with no data when offset >= len.
C18_ReadReturnsTheAskedSlice ==
    lastIsReadOfReadableFile =>
        /\ lastStatus = OK9000
        /\ lastData =
              IF rawOffset >= Len(selectedContent) THEN << >>
              ELSE SubSeq(selectedContent, rawOffset + 1,
                          Min(rawOffset + rawLength, Len(selectedContent)))

\* C18 witness: 00 B0 00 00 00 on the NDEF file returned the whole file
\* (Le = 00 read as 256).
C18_LeZeroWitness ==
    /\ lastIsReadOfReadableFile
    /\ last.cmd = Read00
    /\ last.selectedFileId = FILE_NDEF
    /\ lastStatus = OK9000
    /\ Len(lastData) > 0
    /\ lastData = selectedContent

\* C19: with the CC file selected, a READ BINARY never changes the counter,
\* and at offset 0 with Le >= 6 it is answered E1 40 00 40 00 00 90 00, the
\* same bytes on every read.
C19_CcIsReturnedVerbatim ==
    (lastIsRead /\ last.selectedFileId = FILE_CC) =>
        /\ counter = last.counter
        /\ selectedFileId = FILE_CC
        /\ (Len(last.cmd) = 5 /\ rawOffset = 0 /\ rawLength >= 6) =>
               last.resp = << 225, 64, 0, 64, 0, 0, 144, 0 >>

\* C19 witness: the CC was read with 00 B0 00 00 FF on a card whose counter
\* had already been incremented by an NDEF read, and the counter stayed.
C19_CcReadWitness ==
    /\ last.cmd = ReadFF
    /\ last.selectedFileId = FILE_CC
    /\ last.resp = << 225, 64, 0, 64, 0, 0, 144, 0 >>
    /\ Len(readLog) > 0
    /\ counter = readLog[Len(readLog)].after
    /\ counter = last.counter

\* C20: after the emulation has been enabled or disabled no file is selected
\* (so that the first READ BINARY afterwards is answered 6982), and enabling,
\* disabling and a disconnection leave the stored counter as it was.
C20_SwitchingResetsTheSelection ==
    (event \in { "enabled", "disabled" }) =>
        /\ selectedFileId = NULL
        /\ store \in { NoConfig } \cup
               { [DEFAULT_CONFIG EXCEPT !.counter = c0, !.cardId = CardIdIn] : c0 \in InitCounters }

\* C26: the counter of the persisted configuration record is an integer in
\* 0..2^24-1, whatever the number of stored-counter increments applied to it
\* (one applied to FFFFFF included).
C26_StoredCounterIs24Bit ==
    store.stored => store.counter \in 0..16777215

\* C27: with a file selected, every READ BINARY is answered 9000: a file that
\* SELECT by file id accepted can be read (on a card with well-formed keys).
C27_SelectedFileCanBeRead ==
    (lastIsRead /\ last.selectedFileId # NULL /\ keys = GoodKeys)
    => lastStatus = OK9000

\* C29: a command answered with an error status leaves state.counter as it
\* was, and no call of handleCounterIncrement (which starts the stored-counter
\* increment) was made by a command answered with an error status.
C29_ErrorAnswerLeavesCounter ==
    /\ (Ran /\ lastStatus # OK9000) => counter = last.counter
    /\ \A i \in 1..Len(readLog) : readLog[i].sw = OK9000

\* C28: with no storage operation failing, the persisted counter never
\* becomes lower than a value that was already persisted, whatever the
\* interleaving of a configuration save with stored-counter increments.
C28_SavePreservesTheCounter ==
    [][(faults' = 0 /\ store.stored /\ store'.stored)
           => store'.counter >= store.counter]_vars

\* C30: once HCESession.getInstance() has succeeded, no answer of the bridge
\* was given for want of a session while the initialisation was still under
\* way: isSupported() did not answer false to the Home screen and enable()
\* did not throw 'HCE not available'.
C30_AnswersDoNotDependOnTiming ==
    hce.session # NULL => early = { }

\* C21: in the application as wired every tap increments the stored counter,
\* so two successive taps of one enabled session are served different URLs
\* (different encrypted data and CMAC) and the second finds a higher stored
\* counter.
C21_EachTapIsServedAFreshUrl ==
    \A i \in 1..(Len(appLog) - 1) :
        (appLog[i].kind = "tap" /\ appLog[i + 1].kind = "tap") =>
            /\ appLog[i + 1].content # appLog[i].content
            /\ appLog[i + 1].stored # appLog[i].stored

\* C22: each enabling from the Home screen advances the stored counter, so
\* two successive enablings (a disabling in between) serve SDM URLs built
\* from different counter values.
C22_EachEnableAdvancesTheCounter ==
    \A i \in 1..Len(appLog), j \in 1..Len(appLog) :
        (i < j /\ appLog[i].kind = "enable" /\ appLog[j].kind = "enable") =>
            /\ appLog[j].content # appLog[i].content
            /\ appLog[j].stored # appLog[i].stored

\* The payload of the URI record of an NDEF message buildNDEFMessage returned.
ndefPayload(msg) == SubSeq(msg, 7, Len(msg) - 1)

\* C23: the payload of the URI record is 04 and the URL without its prefix
\* when the URL begins with https://, and 00 and the whole URL otherwise.
C23_IdentifierFollowsTheScheme ==
    (call.fn = "buildNDEFMessage" /\ call.done) =>
        ndefPayload(call.result) =
            IF startsWith(call.url, StrHttps)
            THEN << URI_PREFIX_HTTPS >>
                 \o TextEncode(SubSeq(call.url, Len(StrHttps) + 1, Len(call.url)))
            ELSE << 0 >> \o TextEncode(call.url)

\* C24: in every message the builder emits, byte 1 is the length of the
\* record and the payload-length byte of the record is the length of the
\* payload.
C24_LengthBytesAreTrue ==
    (call.fn = "buildNDEFMessage" /\ call.done /\ call.result # THROWN) =>
        /\ call.result[2] = Len(call.result) - 3
        /\ call.result[5] = Len(call.result) - 7

\* C25: verifyCMAC(K, M, tag) is true for tag = cmac(K, M), and false for
\* that tag with one bit flipped and for a tag of another length.
C25_VerifyAcceptsOnlyTheTag ==
    (call.fn = "verifyCMAC" /\ call.done) =>
        (call.valid <=> call.variant.kind = "exact")

\* C25 witness: the tag of a message of one block and a byte, under the key of
\* the SP 800-38B examples, was refused with its last bit flipped.
C25_LastBitFlippedWitness ==
    /\ call.fn = "verifyCMAC"
    /\ call.done
    /\ call.variant = [kind |-> "flip", bit |-> 128]
    /\ Len(call.message) = 17
    /\ call.key # zeros(16)
    /\ ~call.valid

====
